---------------------------- MODULE Spec2Model ----------------------------
(***************************************************************************)
(* A model of train_gpt2.py: the configuration record, the construction of *)
(* CausalSelfAttention, MLP, Block and GPT modules, and their forward      *)
(* evaluations.                                                            *)
(*                                                                         *)
(* Module objects live in a heap (a sequence of records, the index is the  *)
(* object's identity), so that sharing of sub-modules is observable.       *)
(* An activation tensor is modelled by its shape, by the columns of the    *)
(* producing projection it holds (cols) and by its data dependence: for    *)
(* every sequence position, the set of input positions its value is        *)
(* computed from (dep).  The mask buffer is modelled with its actual 0/1   *)
(* entries.  A Python exception is the err field of a call's result.       *)
(***************************************************************************)
EXTENDS Integers, Sequences, FiniteSets, TLC

(***************************************************************************)
(* Bounds of the model.                                                    *)
(***************************************************************************)
MaxBlockSize == 2
MaxVocab == 1
MaxLayer == 2
MaxHead == 2
MaxEmbd == 3
MaxB == 1
MaxT == 3

VARIABLES
    config,   \* the GPTConfig instance every constructor is given
    heap,     \* the module and buffer objects allocated so far
    attn,     \* outcome of constructing a stand-alone CausalSelfAttention
    model,    \* outcome of constructing GPTConfig.GPT
    call      \* the last forward evaluation and how it ended

vars == <<config, heap, attn, model, call>>

None == [kind |-> "None"]

Min(a, b) == IF a < b THEN a ELSE b

(***************************************************************************)
(* GPTConfig: the dataclass fields.  The configurations explored are all   *)
(* the small ones within the bounds, one larger valid configuration and    *)
(* one whose embedding width (10) is not a multiple of its head count (3). *)
(***************************************************************************)
GPTConfig(bs, vs, nl, nh, ne) ==
    [block_size |-> bs, vocab_size |-> vs, n_layer |-> nl, n_head |-> nh,
     n_embd |-> ne]

Configs ==
    { GPTConfig(bs, vs, nl, nh, ne) :
        bs \in 1..MaxBlockSize, vs \in 1..MaxVocab, nl \in 0..MaxLayer,
        nh \in 1..MaxHead, ne \in 1..MaxEmbd }
    \cup { GPTConfig(8, 10, 2, 2, 8), GPTConfig(8, 10, 1, 3, 10) }

(***************************************************************************)
(* Library modules (torch.nn), by their constructor arguments.             *)
(***************************************************************************)
Linear(in_features, out_features, bias) ==
    [kind |-> "Linear", in_features |-> in_features,
     out_features |-> out_features, bias |-> bias]

Embedding(num_embeddings, embedding_dim) ==
    [kind |-> "Embedding", num_embeddings |-> num_embeddings,
     embedding_dim |-> embedding_dim]

LayerNorm(normalized_shape) ==
    [kind |-> "LayerNorm", normalized_shape |-> normalized_shape]

GELU(approximate) == [kind |-> "GELU", approximate |-> approximate]

\* Allocation of a new object: its identity is its index in the heap.
Alloc(h, obj) == Append(h, obj)

\* The result of a constructor: the heap after it, the object, the exception.
Built(h, self, err) == [heap |-> h, self |-> self, err |-> err]

(***************************************************************************)
(* torch.tril(torch.ones(n, n)): 1 on and below the diagonal, 0 above.     *)
(***************************************************************************)
\* The strictly lower triangle: the diagonal masked as well.
TrilStrict(n) ==
    [i \in 0..(n - 1) |-> [j \in 0..(n - 1) |-> IF j < i THEN 1 ELSE 0]]

Tril(n) ==
    [i \in 0..(n - 1) |-> [j \in 0..(n - 1) |-> IF j <= i THEN 1 ELSE 0]]

\* .view(1, 1, n, n): two leading axes of length 1 around the matrix.
View11(m, n) ==
    [kind |-> "Tensor", shape |-> <<1, 1, n, n>>,
     data |-> [a \in {0} |-> [b \in {0} |-> m]]]

(***************************************************************************)
(* CausalSelfAttention.__init__                                            *)
(***************************************************************************)
\* line 10: the asserted condition, n_embd % n_head == 0
HeadsDivideSwapped(cfg) == cfg.n_head % cfg.n_embd = 0

HeadsDivide(cfg) == cfg.n_embd % cfg.n_head = 0

\* The module itself is allocated first (line 9) and gets its attributes as
\* the constructor binds them: c_attn (line 12), c_proj (line 14), n_head
\* and n_embd (lines 16-17) and the buffer bias (lines 19-20).
CausalSelfAttention_init(h, cfg) ==
    IF ~HeadsDivide(cfg)                                         \* line 10
    THEN Built(Alloc(h, [kind |-> "CausalSelfAttention"]), Len(h) + 1,
               "AssertionError")
    ELSE Built(h \o << [kind |-> "CausalSelfAttention",
                        c_attn |-> Len(h) + 2, c_proj |-> Len(h) + 3,
                        n_head |-> cfg.n_head, n_embd |-> cfg.n_embd,
                        bias |-> Len(h) + 4, buffers |-> {"bias"}],
                       Linear(cfg.n_embd, 3 * cfg.n_embd, TRUE),
                       Linear(cfg.n_embd, cfg.n_embd, TRUE),
                       View11(Tril(cfg.block_size), cfg.block_size) >>,
               Len(h) + 1, "none")

(***************************************************************************)
(* MLP.__init__: the module (line 44), c_fc (45), gelu (46), c_proj (47).  *)
(***************************************************************************)
MLP_init(h, cfg) ==
    Built(h \o << [kind |-> "MLP", c_fc |-> Len(h) + 2,
                   gelu |-> Len(h) + 3, c_proj |-> Len(h) + 4],
                  Linear(cfg.n_embd, 4 * cfg.n_embd, TRUE),
                  GELU("none"),
                  Linear(4 * cfg.n_embd, cfg.n_embd, TRUE) >>,
          Len(h) + 1, "none")

(***************************************************************************)
(* Block.__init__: the module (line 57), ln_1 (58), attn (59), ln_2 (60),  *)
(* mlp (61).  An exception of the attention constructor propagates.        *)
(***************************************************************************)
\* lines 60-61 done: a is the attention built, m the MLP built
Block_init_bind(h, a, m) ==
    Built([m.heap EXCEPT ![Len(h) + 1] =
              [kind |-> "Block", ln_1 |-> Len(h) + 2, attn |-> a.self,
               ln_2 |-> Len(a.heap) + 1, mlp |-> m.self]],
          Len(h) + 1, "none")

\* after line 59: a is the outcome of CausalSelfAttention(config)
Block_init_rest(h, cfg, a) ==
    IF a.err # "none" THEN Built(a.heap, Len(h) + 1, a.err)
    ELSE Block_init_bind(h, a,
             MLP_init(Alloc(a.heap, LayerNorm(cfg.n_embd)), cfg))

Block_init(h, cfg) ==
    Block_init_rest(h, cfg,
        CausalSelfAttention_init(
            h \o << [kind |-> "Block"], LayerNorm(cfg.n_embd) >>, cfg))

(***************************************************************************)
(* [Block(config) for _ in range(config.n_layer)], line 85: the blocks are *)
(* constructed one after the other, each by its own call of Block.  The    *)
(* result's self is the list of the blocks built.                          *)
(***************************************************************************)
RECURSIVE BlockListFrom(_, _, _, _)
\* b is the outcome of the next Block(config), n blocks remain after it
BlockListNext(cfg, n, items, b) ==
    IF b.err # "none" THEN Built(b.heap, items, b.err)
    ELSE BlockListFrom(b.heap, cfg, n, Append(items, b.self))

BlockListFrom(h, cfg, n, items) ==
    IF n = 0 THEN Built(h, items, "none")
    ELSE BlockListNext(cfg, n - 1, items, Block_init(h, cfg))

\* One block constructed once and repeated: [Block(config)] * n_layer.
BlockListRepeat(cfg, b) ==
    IF b.err # "none" THEN Built(b.heap, <<>>, b.err)
    ELSE Built(b.heap, [i \in 1..cfg.n_layer |-> b.self], "none")

BlockListShared(h, cfg) ==
    IF cfg.n_layer = 0 THEN Built(h, <<>>, "none")
    ELSE BlockListRepeat(cfg, Block_init(h, cfg))

BlockList(h, cfg) == BlockListFrom(h, cfg, cfg.n_layer, <<>>)

(***************************************************************************)
(* GPTConfig.GPT.__init__: the module (line 79), wte (83), wpe (84), the   *)
(* blocks and their ModuleList (85), ln_f (86), the ModuleDict (82) and    *)
(* lm_head (88).  An exception of a Block constructor propagates.          *)
(***************************************************************************)
\* after line 85: bl is the outcome of the list of blocks
GPT_init_rest(h, cfg, bl) ==
    IF bl.err # "none" THEN Built(bl.heap, Len(h) + 1, bl.err)
    ELSE Built([bl.heap EXCEPT ![Len(h) + 1] =
                   [kind |-> "GPT", config |-> cfg,              \* line 80
                    transformer |-> Len(bl.heap) + 3,
                    lm_head |-> Len(bl.heap) + 4]]
               \o << [kind |-> "ModuleList", items |-> bl.self],
                     LayerNorm(cfg.n_embd),
                     [kind |-> "ModuleDict", wte |-> Len(h) + 2,
                      wpe |-> Len(h) + 3, h |-> Len(bl.heap) + 1,
                      ln_f |-> Len(bl.heap) + 2],
                     Linear(cfg.n_embd, cfg.vocab_size, FALSE) >>,
               Len(h) + 1, "none")

GPT_init(h, cfg) ==
    GPT_init_rest(h, cfg,
        BlockList(h \o << [kind |-> "GPT"],
                          Embedding(cfg.vocab_size, cfg.n_embd),
                          Embedding(cfg.block_size, cfg.n_embd) >>, cfg))

(***************************************************************************)
(* Activation tensors.  shape is the tensor's size; cols is the range of   *)
(* output columns of the producing projection that the tensor holds; dep   *)
(* gives, for each sequence position, the input positions its value is     *)
(* computed from.                                                          *)
(***************************************************************************)
Tensor(shape, cols, dep) ==
    [kind |-> "Tensor", shape |-> shape, cols |-> cols, dep |-> dep]

\* A forward evaluation's argument of size (B, T, C).
Input(B, T, C) == Tensor(<<B, T, C>>, <<0, C>>, [t \in 0..(T - 1) |-> {t}])

Ok(val) == [err |-> "none", val |-> val]

Raise(err) == [err |-> err, val |-> None]

RECURSIVE Numel(_)
Numel(shape) ==
    IF shape = <<>> THEN 1 ELSE Head(shape) * Numel(Tail(shape))

\* nn.Linear applied to x: the last axis must be in_features wide.
Linear_forward(lin, x) ==
    LET n == Len(x.shape)
    IN  IF x.shape[n] # lin.in_features THEN Raise("RuntimeError")
        ELSE Ok(Tensor([x.shape EXCEPT ![n] = lin.out_features],
                       <<0, lin.out_features>>, x.dep))

\* nn.LayerNorm applied to x: normalizes each position over the last axis.
LayerNorm_forward(ln, x) ==
    LET n == Len(x.shape)
    IN  IF x.shape[n] # ln.normalized_shape THEN Raise("RuntimeError")
        ELSE Ok(Tensor(x.shape, <<0, x.shape[n]>>, x.dep))

\* nn.GELU: element-wise.
GELU_forward(g, x) == Ok(x)

\* t.split(size, dim=2) of a 3-axis tensor: consecutive chunks of `size`
\* columns, the last one shorter when size does not divide the axis.
Split(t, size) ==
    LET w == t.shape[3]
        n == (w + size - 1) \div size
    IN  [i \in 1..n |->
            Tensor([t.shape EXCEPT ![3] = Min(size, w - (i - 1) * size)],
                   <<t.cols[1] + (i - 1) * size,
                     t.cols[1] + Min(i * size, w)>>,
                   t.dep)]

\* t.view(shape): the same elements under another shape.
View(t, shape) ==
    IF Numel(shape) # Numel(t.shape) THEN Raise("RuntimeError")
    ELSE Ok([t EXCEPT !.shape = shape])

\* t.transpose(1, 2) of a 4-axis tensor (0-based axes 1 and 2).
Transpose12(t) ==
    [t EXCEPT !.shape = <<t.shape[1], t.shape[3], t.shape[2], t.shape[4]>>]

\* self.bias[:, :, :T, :T]: a slice stops at the end of the axis.
Slice(buf, T) ==
    LET n == Min(T, buf.shape[3])
    IN  [kind |-> "Tensor", shape |-> <<1, 1, n, n>>,
         data |-> [a \in {0} |-> [b \in {0} |->
                    [i \in 0..(n - 1) |->
                        [j \in 0..(n - 1) |-> buf.data[a][b][i][j]]]]]]

\* How a forward evaluation ended: the heap after it, the exception (or
\* "none"), the source line it stopped at, the local variables bound by
\* then, the attention weights' mask and the returned tensor.
\* A forward that fills the masked entries of the buffer itself, in place.
EndedBufferWritten(h, err, line, locals, masked, out) ==
    [heap |-> [i \in DOMAIN h |->
                  IF h[i].kind = "Tensor"
                  THEN [h[i] EXCEPT !.data =
                           [a \in {0} |-> [b \in {0} |->
                               [r \in DOMAIN h[i].data[0][0] |->
                                   [c \in DOMAIN h[i].data[0][0] |-> 0]]]]]
                  ELSE h[i]],
     err |-> err, line |-> line, locals |-> locals,
     masked |-> masked, out |-> out]

Ended(h, err, line, locals, masked, out) ==
    [heap |-> h, err |-> err, line |-> line, locals |-> locals,
     masked |-> masked, out |-> out]

(***************************************************************************)
(* CausalSelfAttention.forward, lines 33-40, given the three head-split    *)
(* tensors q, k, v of size (B, nh, T, hs).                                 *)
(***************************************************************************)
Attend(h, m, B, T, C, locals) ==
    LET q == locals.q
        k == locals.k
        v == locals.v
        mask == Slice(h[m.bias], T)                              \* line 34
        n == mask.shape[3]
    IN  \* masked_fill broadcasts the (1, 1, n, n) mask to (B, nh, T, T)
        IF n # T /\ n # 1
        THEN Ended(h, "RuntimeError", 34, locals, None, None)
        ELSE
        LET ix(i) == IF n = 1 THEN 0 ELSE i
            \* score (i, j) is set to -inf where the mask entry is 0
            masked == [i \in 0..(T - 1) |-> [j \in 0..(T - 1) |->
                          mask.data[0][0][ix(i)][ix(j)] = 0]]
            \* line 35: a masked score gets weight 0; line 36: row i of y
            \* sums the value rows with non-zero weight, the weights being
            \* computed from query row i and the unmasked key rows
            keys(i) == {j \in 0..(T - 1) : ~masked[i][j]}
            ydep == [i \in 0..(T - 1) |->
                        q.dep[i] \cup
                        UNION {k.dep[j] \cup v.dep[j] : j \in keys(i)}]
            y == Tensor(<<B, m.n_head, T, C \div m.n_head>>, v.cols, ydep)
            yv == View(Transpose12(y), <<B, T, C>>)              \* line 37
        IN  IF yv.err # "none"
            THEN Ended(h, yv.err, 37, locals, masked, None)
            ELSE
            LET out == Linear_forward(h[m.c_proj], yv.val)       \* line 39
            IN  Ended(h, out.err, IF out.err = "none" THEN 40 ELSE 39,
                      locals, masked, out.val)

(***************************************************************************)
(* CausalSelfAttention.forward.  The local variables of the function are   *)
(* a record of the names bound so far; reading a name that no statement    *)
(* has bound yet raises UnboundLocalError.                                 *)
(***************************************************************************)
CausalSelfAttention_forward(h, self, x) ==
    LET m == h[self]
        B == x.shape[1]                                          \* line 23
        T == x.shape[2]
        C == x.shape[3]
        qkv == Linear_forward(h[m.c_attn], x)                    \* line 27
    IN  IF qkv.err # "none"
        THEN Ended(h, qkv.err, 27, [x |-> x], None, None)
        ELSE
        LET parts == Split(qkv.val, m.n_embd)                    \* line 28
        IN  IF Len(parts) # 3
            THEN Ended(h, "ValueError", 28, [x |-> x], None, None)
            ELSE
            LET hs == <<B, T, m.n_head, C \div m.n_head>>
                l28 == [x |-> x, q |-> parts[1], k |-> parts[2],
                        c |-> parts[3]]
                kv == View(l28.k, hs)                            \* line 29
            IN  IF kv.err # "none"
                THEN Ended(h, kv.err, 29, l28, None, None)
                ELSE
                LET l29 == [l28 EXCEPT !.k = Transpose12(kv.val)]
                    qv == View(l29.q, hs)                        \* line 30
                IN  IF qv.err # "none"
                    THEN Ended(h, qv.err, 30, l29, None, None)
                    ELSE
                    LET l30 == [l29 EXCEPT !.q = Transpose12(qv.val)]
                    IN  IF "v" \notin DOMAIN l30                 \* line 31
                        THEN Ended(h, "UnboundLocalError", 31, l30,
                                   None, None)
                        ELSE
                        LET vv == View(l30.v, hs)
                        IN  IF vv.err # "none"
                            THEN Ended(h, vv.err, 31, l30, None, None)
                            ELSE Attend(h, m, B, T, C,
                                   [l30 EXCEPT !.v = Transpose12(vv.val)])

(***************************************************************************)
(* MLP.forward                                                             *)
(***************************************************************************)
MLP_forward(h, self, x) ==
    LET m == h[self]
        a == Linear_forward(h[m.c_fc], x)                        \* line 50
    IN  IF a.err # "none" THEN Ended(h, a.err, 50, [x |-> x], None, None)
        ELSE
        LET g == GELU_forward(h[m.gelu], a.val)                  \* line 51
            p == Linear_forward(h[m.c_proj], g.val)              \* line 52
        IN  Ended(h, p.err, IF p.err = "none" THEN 53 ELSE 52,
                  [x |-> g.val], None, p.val)

\* x + y of two tensors of one shape: position-wise.
Add(x, y) ==
    Tensor(x.shape, x.cols, [t \in DOMAIN x.dep |-> x.dep[t] \cup y.dep[t]])

(***************************************************************************)
(* Block.forward: an exception of a sub-layer propagates.                  *)
(***************************************************************************)
\* line 65, f the outcome of self.mlp(self.ln_2(x1))
Block_forward_mlp(x1, f) ==
    IF f.err # "none"
    THEN Ended(f.heap, f.err, 65, [x |-> x1], None, None)
    ELSE Ended(f.heap, "none", 66, [x |-> Add(x1, f.out)], None,
               Add(x1, f.out))

\* line 65, x1 the value line 64 bound to x, n2 the outcome of self.ln_2(x1)
Block_forward_ln2(h, m, x1, n2) ==
    IF n2.err # "none"
    THEN Ended(h, n2.err, 65, [x |-> x1], None, None)
    ELSE Block_forward_mlp(x1, MLP_forward(h, m.mlp, n2.val))

\* line 64, a the outcome of self.attn(self.ln_1(x))
Block_forward_attn(m, x, a) ==
    IF a.err # "none"
    THEN Ended(a.heap, a.err, 64, [x |-> x], None, None)
    ELSE Block_forward_ln2(a.heap, m, Add(x, a.out),
             LayerNorm_forward(a.heap[m.ln_2], Add(x, a.out)))

\* line 64, n1 the outcome of self.ln_1(x)
Block_forward_ln1(h, m, x, n1) ==
    IF n1.err # "none"
    THEN Ended(h, n1.err, 64, [x |-> x], None, None)
    ELSE Block_forward_attn(m, x,
             CausalSelfAttention_forward(h, m.attn, n1.val))

Block_forward(h, self, x) ==
    Block_forward_ln1(h, h[self], x, LayerNorm_forward(h[h[self].ln_1], x))

(***************************************************************************)
(* GPTConfig.GPT defines __init__ only.  Evaluating the model reaches the  *)
(* forward that nn.Module provides for a subclass that defines none, which *)
(* raises NotImplementedError.                                             *)
(***************************************************************************)
GPT_forward(h, self, idx) ==
    Ended(h, "NotImplementedError", 77, [idx |-> idx], None, None)

(***************************************************************************)
(* The program: a configuration is made, the modules are constructed from  *)
(* it, and the constructed modules are evaluated on inputs.                *)
(***************************************************************************)
\* The fully constructed modules of a class.  A module whose constructor
\* raised has none of its attributes and is referenced by nobody.
Instances(h, kind, attr) ==
    {i \in 1..Len(h) : h[i].kind = kind /\ attr \in DOMAIN h[i]}

\* The outcome of a constructor call, with the objects it allocated.
Outcome(before, r) ==
    [kind |-> "Built", self |-> r.self, err |-> r.err,
     allocated |-> (Len(before) + 1)..Len(r.heap)]

\* The record of a forward evaluation.
Called(op, self, shape, r) ==
    [kind |-> "Call", op |-> op, self |-> self, shape |-> shape,
     err |-> r.err, line |-> r.line, locals |-> r.locals,
     masked |-> r.masked, out |-> r.out]

Init ==
    /\ config \in Configs
    /\ heap = <<>>
    /\ attn = None
    /\ model = None
    /\ call = None

\* CausalSelfAttention(config)
NewAttention ==
    /\ attn = None
    /\ LET r == CausalSelfAttention_init(heap, config)
       IN  /\ heap' = r.heap
           /\ attn' = Outcome(heap, r)
    /\ UNCHANGED <<config, model, call>>

\* GPTConfig.GPT(config)
NewGPT ==
    /\ model = None
    /\ LET r == GPT_init(heap, config)
       IN  /\ heap' = r.heap
           /\ model' = Outcome(heap, r)
    /\ UNCHANGED <<config, attn, call>>

\* attention(x) for x of size (B, T, n_embd)
AttentionForward ==
    /\ \E self \in Instances(heap, "CausalSelfAttention", "c_attn"),
          B \in 1..MaxB, T \in 1..MaxT :
          LET r == CausalSelfAttention_forward(heap, self, Input(B, T, config.n_embd))
          IN  /\ heap' = r.heap
              /\ call' = Called("CausalSelfAttention.forward", self,
                                <<B, T, config.n_embd>>, r)
    /\ UNCHANGED <<config, attn, model>>

\* mlp(x) for x of size (B, T, n_embd)
MLPForward ==
    /\ \E self \in Instances(heap, "MLP", "c_fc"),
          B \in 1..MaxB, T \in 1..MaxT :
          LET r == MLP_forward(heap, self, Input(B, T, config.n_embd))
          IN  /\ heap' = r.heap
              /\ call' = Called("MLP.forward", self, <<B, T, config.n_embd>>, r)
    /\ UNCHANGED <<config, attn, model>>

\* block(x) for x of size (B, T, n_embd)
BlockForward ==
    /\ \E self \in Instances(heap, "Block", "attn"),
          B \in 1..MaxB, T \in 1..MaxT :
          LET r == Block_forward(heap, self, Input(B, T, config.n_embd))
          IN  /\ heap' = r.heap
              /\ call' = Called("Block.forward", self, <<B, T, config.n_embd>>, r)
    /\ UNCHANGED <<config, attn, model>>

\* model(idx) for an index batch idx of size (B, T)
GPTForward ==
    /\ \E self \in Instances(heap, "GPT", "lm_head"),
          B \in 1..MaxB, T \in 1..MaxT :
          LET r == GPT_forward(heap, self, <<B, T>>)
          IN  /\ heap' = r.heap
              /\ call' = Called("GPT.forward", self, <<B, T>>, r)
    /\ UNCHANGED <<config, attn, model>>

Next ==
    \/ NewAttention
    \/ NewGPT
    \/ AttentionForward
    \/ MLPForward
    \/ BlockForward
    \/ GPTForward

Spec == Init /\ [][Next]_vars

(***************************************************************************)
(* Properties.                                                             *)
(***************************************************************************)
Attentions == Instances(heap, "CausalSelfAttention", "c_attn")

\* The last forward evaluation was one of `op`.
Did(op) == call # None /\ call.op = op

\* The last forward evaluation was attention on an input of the configured
\* width and of a length within block_size.
AttendedInRange ==
    /\ Did("CausalSelfAttention.forward")
    /\ call.shape[2] <= config.block_size
    /\ call.shape[3] = config.n_embd

\* C1: constructing CausalSelfAttention completes exactly when n_head
\* divides n_embd; completed, the module has its two projections and its
\* mask buffer; otherwise it fails with the AssertionError of line 10 and
\* has allocated no projection and no buffer.
C1_ConstructionIffDivisible ==
    attn # None =>
        /\ (attn.err = "none") <=> (config.n_embd % config.n_head = 0)
        /\ attn.err = "none" =>
              /\ attn.self \in Attentions
              /\ heap[heap[attn.self].c_attn].kind = "Linear"
              /\ heap[heap[attn.self].c_proj].kind = "Linear"
              /\ heap[heap[attn.self].bias].kind = "Tensor"
        /\ attn.err # "none" =>
              /\ attn.err = "AssertionError"
              /\ \A i \in attn.allocated :
                    heap[i].kind \notin {"Linear", "Tensor"}
              /\ DOMAIN heap[attn.self] = {"kind"}

C1_Witness ==
    /\ attn # None
    /\ attn.err = "AssertionError"
    /\ config.n_embd = 10
    /\ config.n_head = 3

\* C2: a completed attention forward on a length within block_size
\* returns, at every position i, a value computed from input positions
\* 0..i only.
C2_StrictCausality ==
    AttendedInRange =>
        /\ call.err = "none"
        /\ \A i \in 0..(call.shape[2] - 1) : call.out.dep[i] \subseteq 0..i

\* C3: attention forward binds the three equal parts of the combined
\* projection, in order, to query, key and value, and returns a tensor of
\* the input's size (B, T, C).
C3_SplitAndShape ==
    AttendedInRange =>
        LET C == call.shape[3]
        IN  /\ {"q", "k", "v"} \subseteq DOMAIN call.locals
            /\ call.locals.q.cols = <<0, C>>
            /\ call.locals.k.cols = <<C, 2 * C>>
            /\ call.locals.v.cols = <<2 * C, 3 * C>>
            /\ call.err = "none"
            /\ call.out.shape = call.shape

\* C4: the model's forward on an index batch (B, T), T <= block_size,
\* returns logits of size (B, T, vocab_size).
C4_Logits ==
    (Did("GPT.forward") /\ call.shape[2] <= config.block_size) =>
        /\ call.err = "none"
        /\ call.out.shape =
               <<call.shape[1], call.shape[2], config.vocab_size>>

\* The exceptions a check of the sequence length against block_size would
\* raise: an assertion, or the position table's out-of-range lookup.
SequenceTooLong == {"AssertionError", "IndexError"}

\* C5: a forward evaluation on a sequence longer than block_size fails
\* with the sequence-too-long condition and returns nothing.
C5_SequenceTooLong ==
    (/\ Did("CausalSelfAttention.forward") \/ Did("GPT.forward")
     /\ call.shape[2] > config.block_size
     /\ Did("CausalSelfAttention.forward") => call.shape[3] = config.n_embd)
    =>  /\ call.err \in SequenceTooLong
        /\ call.out = None

\* C6: the mask buffer of every attention module is the block_size by
\* block_size lower-triangular 0/1 matrix, registered as a buffer, in
\* every state: after construction and after any forward evaluations.
C6_MaskBufferFixed ==
    \A a \in Attentions :
        LET b == heap[heap[a].bias]
            n == config.block_size
        IN  /\ b.shape = <<1, 1, n, n>>
            /\ "bias" \in heap[a].buffers
            /\ \A i, j \in 0..(n - 1) :
                  b.data[0][0][i][j] = IF j <= i THEN 1 ELSE 0

C6_Witness ==
    /\ Did("CausalSelfAttention.forward")
    /\ config.block_size >= 2
    /\ call.shape[2] > config.block_size
    /\ C6_MaskBufferFixed

\* C7: attention forward on a length within block_size masks exactly the
\* scores (i, j) with j > i.
C7_MaskedExactlyFuture ==
    AttendedInRange =>
        /\ call.masked # None
        /\ \A i, j \in 0..(call.shape[2] - 1) :
              call.masked[i][j] <=> (j > i)

\* C8: the block's forward applies attention, then the feed-forward, each
\* added to its input, and returns a tensor of the input's size.
C8_BlockResidualOrder ==
    (/\ Did("Block.forward")
     /\ call.shape[2] <= config.block_size
     /\ call.shape[3] = config.n_embd)
    =>  /\ call.err = "none"
        /\ call.line = 66
        /\ call.out.shape = call.shape

\* The objects of block b: the block, its four sub-layers and theirs.
BlockParts(b) ==
    {b, heap[b].ln_1, heap[b].attn, heap[b].ln_2, heap[b].mlp,
     heap[heap[b].attn].c_attn, heap[heap[b].attn].c_proj,
     heap[heap[b].attn].bias, heap[heap[b].mlp].c_fc,
     heap[heap[b].mlp].gelu, heap[heap[b].mlp].c_proj}

\* C9: a constructed model holds exactly n_layer blocks in a list, no
\* object shared between two of them, each with its own attention,
\* feed-forward and two normalizations; a (vocab_size, n_embd) token table,
\* a (block_size, n_embd) position table, one final normalization and a
\* bias-free projection from n_embd to vocab_size.
C9_ModelStructure ==
    (model # None /\ model.err = "none") =>
        LET g == heap[model.self]
            tr == heap[g.transformer]
            blocks == heap[tr.h].items
            ofKind(k) == {i \in model.allocated : heap[i].kind = k}
        IN  /\ Len(blocks) = config.n_layer
            /\ Cardinality(ofKind("Block")) = config.n_layer
            /\ \A i \in 1..Len(blocks) :
                  /\ heap[blocks[i]].kind = "Block"
                  /\ heap[heap[blocks[i]].ln_1] = LayerNorm(config.n_embd)
                  /\ heap[heap[blocks[i]].ln_2] = LayerNorm(config.n_embd)
                  /\ heap[heap[blocks[i]].attn].kind = "CausalSelfAttention"
                  /\ heap[heap[blocks[i]].mlp].kind = "MLP"
                  /\ Cardinality(BlockParts(blocks[i])) = 11
            /\ \A i, j \in 1..Len(blocks) :
                  i # j => BlockParts(blocks[i]) \cap BlockParts(blocks[j]) = {}
            /\ heap[tr.wte] = Embedding(config.vocab_size, config.n_embd)
            /\ heap[tr.wpe] = Embedding(config.block_size, config.n_embd)
            /\ heap[tr.ln_f] = LayerNorm(config.n_embd)
            /\ Cardinality(ofKind("LayerNorm")) = 2 * config.n_layer + 1
            /\ Cardinality(ofKind("Embedding")) = 2
            /\ heap[g.lm_head] =
                   Linear(config.n_embd, config.vocab_size, FALSE)

C9_Witness ==
    /\ model # None
    /\ model.err = "none"
    /\ config.n_layer >= 2
    /\ config.vocab_size # config.block_size

\* C10: for every length T in 1..block_size, row i of the T by T slice of
\* the mask buffer is non-zero at exactly the positions 0..i, so at least
\* one key position of every query is left unmasked; and no row of
\* attention scores is masked at every position.
C10_RowNeverFullyMasked ==
    /\ \A a \in Attentions :
          \A T \in 1..config.block_size :
              LET s == Slice(heap[heap[a].bias], T)
              IN  /\ s.shape = <<1, 1, T, T>>
                  /\ \A i \in 0..(T - 1) :
                        {j \in 0..(T - 1) : s.data[0][0][i][j] # 0} = 0..i
    /\ (call # None /\ call.masked # None) =>
          \A i \in DOMAIN call.masked :
              \E j \in DOMAIN call.masked[i] : ~call.masked[i][j]

C10_Witness ==
    /\ AttendedInRange
    /\ call.shape[2] >= 2
    /\ call.self \in Attentions

=============================================================================
